---- MODULE Spec2Model ----
(***************************************************************************)
(* RepairO user-management API: the authentication and account-lifecycle  *)
(* workflow (register, login, forgot-password, reset-password, profile    *)
(* update) over the two MongoDB collections User and ServiceProvider.     *)
(*                                                                         *)
(* Spec      every request handler runs as one step (requests one after   *)
(*           the other).                                                   *)
(* ConcSpec  the handlers of AuthService are split at their awaits (the   *)
(*           findOne, then the save), so two requests interleave.         *)
(***************************************************************************)
EXTENDS Integers, FiniteSets, Sequences, TLC

\* ---------------------------------------------------------------- bounds
MaxAccounts == 2      \* documents ever inserted (ObjectIds 1..MaxAccounts)
MaxTime     == 1      \* the clock runs 0..MaxTime, in units of one hour
MaxTokens   == 2      \* reset tokens crypto.randomBytes ever produces
MaxReqs     == 2      \* requests in flight at once (ConcSpec)
MaxRequests == 3      \* requests handled in one run (Spec)
MaxStarted  == 4      \* requests started in one run (ConcSpec)
MaxSession  == 5      \* requests handled in one run (SessionSpec)

\* ------------------------------------------------------------- constants
JwtLifetime == 1      \* JWT_EXPIRES_IN, set to 1h here (the code's default is 24h)
ResetWindow == 1      \* 60 * 60 * 1000 ms, one hour, in clock units

Emails    == {"a@x.com", "b@x.com"}
Passwords == {"secret1", "secret2"}
Names     == {"Ann", "Bob"}
UserTypes == {"user", "serviceProvider"}

Null      == -1            \* JS null in a token or date field
Absent    == -2            \* a token or date key missing from a JSON body
AbsentStr == "<absent>"    \* a string key missing from a JSON body

\* A date a client makes up that lies after every instant of the run.
FarFuture == MaxTime + ResetWindow

VARIABLES
  users,        \* the User collection: a set of documents
  providers,    \* the ServiceProvider collection: a set of documents
  now,          \* Date.now()
  nextId,       \* the next ObjectId the driver generates
  nextToken,    \* the next value crypto.randomBytes(32) yields (fresh each call)
  jwts,         \* bearer tokens handed out by login: <<userId>> payloads
  resp,         \* the HTTP response of the last request (Spec)
  pending,      \* reset tokens issued by forgotPassword, not yet superseded
  used,         \* reset tokens a successful resetPassword consumed
  reqs,         \* the requests in flight (ConcSpec)
  served,       \* requests handled so far
  limit         \* requests the run handles before the server is stopped

vars == <<users, providers, now, nextId, nextToken, jwts, resp, pending, used, reqs, served,
          limit>>

\* ------------------------------------------------------- password hasher
\* The value of a password path: the plaintext `text` run `hashed` times
\* through bcrypt (0: the plaintext itself, 1: its digest, 2: the digest of
\* its digest, which no plaintext a client knows verifies against).
\* A string written to the password path with no hashing.
Verbatim(p) == [hashed |-> 0, text |-> p]

\* bcrypt.hash(value, salt) of the string currently in the password path.
bcrypt_hash(value) == [hashed |-> value.hashed + 1, text |-> value.text]

\* bcrypt.compare(candidate, stored): true only on the digest of the candidate.
bcrypt_compare(candidate, stored) == stored.hashed = 1 /\ stored.text = candidate

\* userSchema.methods.comparePassword
comparePassword(doc, candidatePassword) ==
  bcrypt_compare(candidatePassword, doc.password)

\* ------------------------------------------------------------ the model
\* new User(userData) / new ServiceProvider(providerData): every schema path
\* present in the body is taken; the reset fields default to null.
NewDocument(id, body) ==
  [ id        |-> id,
    email     |-> body.email,
    firstName |-> body.firstName,
    password  |-> Verbatim(body.password),
    resetPasswordToken   |-> IF body.resetPasswordToken = Absent
                             THEN Null ELSE body.resetPasswordToken,
    resetPasswordExpires |-> IF body.resetPasswordExpires = Absent
                             THEN Null ELSE body.resetPasswordExpires ]

\* new ServiceProvider(providerData): the provider schema also has expertise.
NewServiceProvider(id, body) ==
  [ id        |-> id,
    email     |-> body.email,
    firstName |-> body.firstName,
    password  |-> Verbatim(body.password),
    expertise |-> body.expertise,
    resetPasswordToken   |-> IF body.resetPasswordToken = Absent
                             THEN Null ELSE body.resetPasswordToken,
    resetPasswordExpires |-> IF body.resetPasswordExpires = Absent
                             THEN Null ELSE body.resetPasswordExpires ]

\* Mutant: toJSON returns toObject() as it is.
toJSON_keepsPassword(doc) == doc

\* schema.methods.toJSON, which res.json applies to every document it
\* serializes: toObject() with the password key deleted.
toJSON(doc) == [k \in DOMAIN doc \ {"password"} |-> doc[k]]

\* Query.select('-password'): the documents come back without the path.
selectMinusPassword(doc) == [k \in DOMAIN doc \ {"password"} |-> doc[k]]

\* pre('save'): hash the password path only if it was modified.
preSave(doc, passwordModified) ==
  IF ~passwordModified THEN doc
  ELSE [doc EXCEPT !.password = bcrypt_hash(doc.password)]

\* Model.findOne(filter): the first matching document in natural (_id) order,
\* as a set of zero or one documents.
First(S) ==
  IF S = {} THEN {} ELSE {CHOOSE d \in S : \A e \in S : d.id <= e.id}

findOneByEmail(coll, email) == First({d \in coll : d.email = email})

\* Mutant: the expiry compared with $gte, so a token still matches at the very
\* instant it expires.
findOneByResetToken_gte(coll, token, t) ==
  First({d \in coll : /\ d.resetPasswordToken = token
                      /\ d.resetPasswordExpires # Null
                      /\ d.resetPasswordExpires >= t})

\* findOne({resetPasswordToken: token, resetPasswordExpires: {$gt: Date.now()}})
findOneByResetToken(coll, token, t) ==
  First({d \in coll : /\ d.resetPasswordToken = token
                      /\ d.resetPasswordExpires # Null
                      /\ d.resetPasswordExpires > t})

findById(coll, id) == {d \in coll : d.id = id}

\* The unique index on email (and on _id) of one collection.
UniqueViolation(coll, doc) ==
  \E d \in coll : d.id # doc.id /\ d.email = doc.email

\* doc.save() of an existing document: writes the modified paths of doc.
\* mods holds the paths set on the in-memory document.
ApplyPaths(d, mods) ==
  [ d EXCEPT
    !.email     = IF mods.email = AbsentStr THEN d.email ELSE mods.email,
    !.firstName = IF mods.firstName = AbsentStr THEN d.firstName ELSE mods.firstName,
    !.password  = IF mods.password = AbsentStr THEN d.password
                  ELSE Verbatim(mods.password),
    !.resetPasswordToken   = IF mods.resetPasswordToken = Absent
                             THEN d.resetPasswordToken ELSE mods.resetPasswordToken,
    !.resetPasswordExpires = IF mods.resetPasswordExpires = Absent
                             THEN d.resetPasswordExpires ELSE mods.resetPasswordExpires ]

NoPaths ==
  [ email |-> AbsentStr, firstName |-> AbsentStr, password |-> AbsentStr,
    resetPasswordToken |-> Absent, resetPasswordExpires |-> Absent ]

save(coll, id, mods) ==
  { IF d.id = id
    THEN preSave(ApplyPaths(d, mods), mods.password # AbsentStr)
    ELSE d : d \in coll }

\* ---------------------------------------------------------- token issuer
\* What an Authorization header can carry: nothing, a string that is no JWT,
\* or a JWT with its payload (userId, exp) and whether its signature is the
\* one JWT_SECRET gives.
NoToken == [form |-> "none", userId |-> 0, exp |-> 0, signed |-> FALSE]
Malformed == [form |-> "garbage", userId |-> 0, exp |-> 0, signed |-> FALSE]

\* jwt.sign({userId}, JWT_SECRET, {expiresIn: JWT_EXPIRES_IN}) at time t
generateToken(userId, t) ==
  [form |-> "jwt", userId |-> userId, exp |-> t + JwtLifetime, signed |-> TRUE]

\* jwt.verify(token, JWT_SECRET) at time t: the payload, or the error thrown
\* (the signature is checked before the expiry).
jwt_verify(token, t) ==
  IF token.form # "jwt" \/ ~token.signed
  THEN [error |-> "JsonWebTokenError", userId |-> 0]
  ELSE IF t >= token.exp THEN [error |-> "TokenExpiredError", userId |-> 0]
  ELSE [error |-> "", userId |-> token.userId]


\* ----------------------------------------------------------- error texts
UserExistsMsg      == "User with this email already exists"
ProviderExistsMsg  == "Service provider with this email already exists"
InvalidLoginMsg    == "Invalid email or password"
NoAccountMsg       == "No account found with this email address"
InvalidResetMsg    == "Invalid or expired reset token"
EmailDownMsg       == "Email service unavailable. Please contact support for password reset."
DuplicateKeyMsg    == "E11000 duplicate key error"
UserNotFoundMsg    == "User not found"
ProviderNotFoundMsg == "Service provider not found"
NoError            == ""

\* error.message.includes(part), over the messages this program raises.
Includes(message, part) ==
  \/ part = "already exists"   /\ message \in {UserExistsMsg, ProviderExistsMsg}
  \/ part = InvalidLoginMsg    /\ message = InvalidLoginMsg
  \/ part = "No account found" /\ message = NoAccountMsg
  \/ part = "Invalid or expired" /\ message = InvalidResetMsg

\* ------------------------------------------------------------ EmailService
\* A message handed to transporter.sendMail: its recipient, for a reset mail
\* the token and the account kind its URL embeds, and whether the transport
\* delivered it (mailOk) or threw.
NoMail ==
  [kind |-> "none", to |-> "", resetToken |-> Null, userType |-> "", delivered |-> FALSE]
WelcomeMail(to, mailOk) ==
  [kind |-> "welcome", to |-> to, resetToken |-> Null, userType |-> "", delivered |-> mailOk]
ResetMail(to, resetToken, userType, mailOk) ==
  [kind |-> "reset", to |-> to, resetToken |-> resetToken, userType |-> userType,
   delivered |-> mailOk]

\* Mutant: the welcome mail's delivery failure is thrown on to the caller.
sendWelcomeEmail_rethrows(mailOk) == IF mailOk THEN NoError ELSE EmailDownMsg

\* transporter.sendMail either delivers or throws; sendWelcomeEmail catches
\* the failure and returns normally.
sendWelcomeEmail(mailOk) == NoError

\* Mutant: the reset mail's delivery failure is logged and swallowed.
sendForgotPasswordEmail_swallows(mailOk) == NoError

\* sendForgotPasswordEmail re-throws a delivery failure.
sendForgotPasswordEmail(mailOk) == IF mailOk THEN NoError ELSE EmailDownMsg

\* ------------------------------------------------------------- AuthService
\* Mutant: the collection has no unique index on email.
insertDocument_noUniqueIndex(coll, doc) ==
  [code |-> 0, coll |-> coll \cup {preSave(doc, TRUE)}]

\* user.save() of a new document: pre-save hashes the password, the unique
\* index rejects a second document with the same email (error code 11000).
insertDocument(coll, doc) ==
  IF UniqueViolation(coll, doc) \/ findById(coll, doc.id) # {}
  THEN [code |-> 11000, coll |-> coll]
  ELSE [code |-> 0, coll |-> coll \cup {preSave(doc, TRUE)}]

\* AuthService.registerUser, from the save on (the existence check passed).
registerUserSave(U, userData, id, mailOk) ==
  LET ins == insertDocument(U, NewDocument(id, userData))
  IN IF ins.code = 11000
     THEN [error |-> UserExistsMsg, coll |-> U, userId |-> 0, mail |-> NoMail]
     ELSE [error |-> sendWelcomeEmail(mailOk), coll |-> ins.coll, userId |-> id,
           mail |-> WelcomeMail(userData.email, mailOk)]

registerUser(U, userData, id, mailOk) ==
  IF findOneByEmail(U, userData.email) # {}
  THEN [error |-> UserExistsMsg, coll |-> U, userId |-> 0, mail |-> NoMail]
  ELSE registerUserSave(U, userData, id, mailOk)

\* AuthService.registerServiceProvider, from the save on.
registerServiceProviderSave(P, providerData, id, mailOk) ==
  LET ins == insertDocument(P, NewServiceProvider(id, providerData))
  IN IF ins.code = 11000
     THEN [error |-> ProviderExistsMsg, coll |-> P, userId |-> 0, mail |-> NoMail]
     ELSE [error |-> sendWelcomeEmail(mailOk), coll |-> ins.coll, userId |-> id,
           mail |-> WelcomeMail(providerData.email, mailOk)]

registerServiceProvider(P, providerData, id, mailOk) ==
  IF findOneByEmail(P, providerData.email) # {}
  THEN [error |-> ProviderExistsMsg, coll |-> P, userId |-> 0, mail |-> NoMail]
  ELSE registerServiceProviderSave(P, providerData, id, mailOk)

\* Mutant: the probe looks into providers first.
resolveByEmail_providersFirst(U, P, email) ==
  LET u == findOneByEmail(P, email)
  IN IF u # {} THEN [found |-> u, userType |-> "serviceProvider"]
     ELSE [found |-> findOneByEmail(U, email), userType |-> "user"]

\* The two-step probe of login and forgotPassword: users first, then providers.
resolveByEmail(U, P, email) ==
  LET u == findOneByEmail(U, email)
  IN IF u # {} THEN [found |-> u, userType |-> "user"]
     ELSE [found |-> findOneByEmail(P, email), userType |-> "serviceProvider"]

\* Mutant: login reports kind 'user' whichever collection the account is in.
login_reportsUserKind(U, P, email, password, t) ==
  LET r == resolveByEmail(U, P, email)
  IN IF r.found = {}
     THEN [error |-> InvalidLoginMsg, token |-> NoToken, userType |-> "", user |-> {}]
     ELSE LET user == CHOOSE d \in r.found : TRUE
          IN IF ~comparePassword(user, password)
             THEN [error |-> InvalidLoginMsg, token |-> NoToken, userType |-> "",
                   user |-> {}]
             ELSE [error |-> NoError, token |-> generateToken(user.id, t),
                   userType |-> "user", user |-> {toJSON(user)}]

\* Mutant: an unknown email raises its own error instead of the shared one.
login_unknownEmailError(U, P, email, password, t) ==
  LET r == resolveByEmail(U, P, email)
  IN IF r.found = {}
     THEN [error |-> NoAccountMsg, token |-> NoToken, userType |-> "", user |-> {}]
     ELSE LET user == CHOOSE d \in r.found : TRUE
          IN IF ~comparePassword(user, password)
             THEN [error |-> InvalidLoginMsg, token |-> NoToken, userType |-> "",
                   user |-> {}]
             ELSE [error |-> NoError, token |-> generateToken(user.id, t),
                   userType |-> r.userType, user |-> {toJSON(user)}]

\* AuthService.login
login(U, P, email, password, t) ==
  LET r == resolveByEmail(U, P, email)
  IN IF r.found = {}
     THEN [error |-> InvalidLoginMsg, token |-> NoToken, userType |-> "", user |-> {}]
     ELSE LET user == CHOOSE d \in r.found : TRUE
          IN IF ~comparePassword(user, password)
             THEN [error |-> InvalidLoginMsg, token |-> NoToken, userType |-> "",
                   user |-> {}]
             ELSE [error |-> NoError, token |-> generateToken(user.id, t),
                   userType |-> r.userType, user |-> {toJSON(user)}]

\* Mutant: the save is undone when the notification fails.
forgotPasswordSave_rollsBack(U, P, userId, userType, resetToken, t, mailOk) ==
  LET mods == [NoPaths EXCEPT !.resetPasswordToken = resetToken,
                              !.resetPasswordExpires = t + ResetWindow]
      user == CHOOSE d \in findById(IF userType = "user" THEN U ELSE P, userId) : TRUE
  IN [ error     |-> sendForgotPasswordEmail(mailOk),
       users     |-> IF userType = "user" /\ mailOk THEN save(U, userId, mods) ELSE U,
       providers |-> IF userType = "user" \/ ~mailOk THEN P ELSE save(P, userId, mods),
       userId    |-> userId,
       userType  |-> userType,
       mail      |-> ResetMail(user.email, resetToken, userType, mailOk) ]

\* Mutant: the expiry is stored one clock unit too late.
forgotPasswordSave_expiresLater(U, P, userId, userType, resetToken, t, mailOk) ==
  LET mods == [NoPaths EXCEPT !.resetPasswordToken = resetToken,
                              !.resetPasswordExpires = t + ResetWindow + 1]
      user == CHOOSE d \in findById(IF userType = "user" THEN U ELSE P, userId) : TRUE
  IN [ error     |-> sendForgotPasswordEmail(mailOk),
       users     |-> IF userType = "user" THEN save(U, userId, mods) ELSE U,
       providers |-> IF userType = "user" THEN P ELSE save(P, userId, mods),
       userId    |-> userId,
       userType  |-> userType,
       mail      |-> ResetMail(user.email, resetToken, userType, mailOk) ]

\* AuthService.forgotPassword, from the save on: store the token and its
\* expiry on the resolved document, then send the notification.
forgotPasswordSave(U, P, userId, userType, resetToken, t, mailOk) ==
  LET mods == [NoPaths EXCEPT !.resetPasswordToken = resetToken,
                              !.resetPasswordExpires = t + ResetWindow]
      user == CHOOSE d \in findById(IF userType = "user" THEN U ELSE P, userId) : TRUE
  IN [ error     |-> sendForgotPasswordEmail(mailOk),
       users     |-> IF userType = "user" THEN save(U, userId, mods) ELSE U,
       providers |-> IF userType = "user" THEN P ELSE save(P, userId, mods),
       userId    |-> userId,
       userType  |-> userType,
       mail      |-> ResetMail(user.email, resetToken, userType, mailOk) ]

\* Mutant: an email that matches no account is answered like a success.
forgotPassword_silentOnUnknown(U, P, email, resetToken, t, mailOk) ==
  LET r == resolveByEmail(U, P, email)
  IN IF r.found = {}
     THEN [error |-> NoError, users |-> U, providers |-> P,
           userId |-> 0, userType |-> "", mail |-> NoMail]
     ELSE forgotPasswordSave(U, P, (CHOOSE d \in r.found : TRUE).id,
                             r.userType, resetToken, t, mailOk)

\* AuthService.forgotPassword
forgotPassword(U, P, email, resetToken, t, mailOk) ==
  LET r == resolveByEmail(U, P, email)
  IN IF r.found = {}
     THEN [error |-> NoAccountMsg, users |-> U, providers |-> P,
           userId |-> 0, userType |-> "", mail |-> NoMail]
     ELSE forgotPasswordSave(U, P, (CHOOSE d \in r.found : TRUE).id,
                             r.userType, resetToken, t, mailOk)

\* Mutant: the reset writes the account back as a new document, under an id
\* no token was issued for.
resetPasswordSave_newDocument(U, P, userId, userType, newPassword) ==
  LET mods == [NoPaths EXCEPT !.password = newPassword,
                              !.resetPasswordToken = Null,
                              !.resetPasswordExpires = Null]
      Moved(coll) == {IF d.id = userId THEN [d EXCEPT !.id = userId + MaxAccounts] ELSE d :
                        d \in save(coll, userId, mods)}
  IN [ error     |-> NoError,
       users     |-> IF userType = "serviceProvider" THEN U ELSE Moved(U),
       providers |-> IF userType = "serviceProvider" THEN Moved(P) ELSE P,
       userId    |-> userId ]

\* AuthService.resetPassword, from the save on.
resetPasswordSave(U, P, userId, userType, newPassword) ==
  LET mods == [NoPaths EXCEPT !.password = newPassword,
                              !.resetPasswordToken = Null,
                              !.resetPasswordExpires = Null]
  IN [ error     |-> NoError,
       users     |-> IF userType = "serviceProvider" THEN U ELSE save(U, userId, mods),
       providers |-> IF userType = "serviceProvider" THEN save(P, userId, mods) ELSE P,
       userId    |-> userId ]

\* Mutant: a token the named collection does not hold is looked up in the
\* other collection.
resetPassword_eitherKind(U, P, token, newPassword, userType, t) ==
  LET Model == IF userType = "serviceProvider" THEN P ELSE U
      Other == IF userType = "serviceProvider" THEN U ELSE P
      otherType == IF userType = "serviceProvider" THEN "user" ELSE "serviceProvider"
      user  == findOneByResetToken(Model, token, t)
      other == findOneByResetToken(Other, token, t)
  IN IF user # {}
     THEN resetPasswordSave(U, P, (CHOOSE d \in user : TRUE).id, userType, newPassword)
     ELSE IF other # {}
     THEN resetPasswordSave(U, P, (CHOOSE d \in other : TRUE).id, otherType, newPassword)
     ELSE [error |-> InvalidResetMsg, users |-> U, providers |-> P, userId |-> 0]

\* AuthService.resetPassword
resetPassword(U, P, token, newPassword, userType, t) ==
  LET Model == IF userType = "serviceProvider" THEN P ELSE U
      user  == findOneByResetToken(Model, token, t)
  IN IF user = {}
     THEN [error |-> InvalidResetMsg, users |-> U, providers |-> P, userId |-> 0]
     ELSE resetPasswordSave(U, P, (CHOOSE d \in user : TRUE).id, userType, newPassword)

\* --------------------------------------- UserService / ServiceProviderService
\* Mutant: the update goes through the save hook and hashes the password
\* path again.
findByIdAndUpdate_rehashes(coll, id, updateData) ==
  LET target == findById(coll, id)
  IN IF target = {} THEN [error |-> "not found", coll |-> coll, doc |-> {}]
     ELSE LET doc == preSave(ApplyPaths(CHOOSE d \in target : TRUE, updateData), TRUE)
          IN [error |-> NoError, doc |-> {doc},
              coll |-> {IF d.id = id THEN doc ELSE d : d \in coll}]

\* Model.findByIdAndUpdate(id, {$set: updateData}, {new, runValidators}):
\* every schema path in the body is written as given; no save hook runs.
\* doc is the updated document it returns.
findByIdAndUpdate(coll, id, updateData) ==
  LET target == findById(coll, id)
  IN IF target = {} THEN [error |-> "not found", coll |-> coll, doc |-> {}]
     ELSE LET doc == ApplyPaths(CHOOSE d \in target : TRUE, updateData)
          IN IF UniqueViolation(coll, doc)
             THEN [error |-> DuplicateKeyMsg, coll |-> coll, doc |-> {}]
             ELSE [error |-> NoError, doc |-> {doc},
                   coll |-> {IF d.id = id THEN doc ELSE d : d \in coll}]

\* Model.deleteMany() in place of findByIdAndDelete: a found id empties the
\* collection.
findByIdAndDelete_dropsCollection(coll, id) ==
  [doc |-> findById(coll, id), coll |-> IF findById(coll, id) = {} THEN coll ELSE {}]

\* Model.findByIdAndDelete(id)
findByIdAndDelete(coll, id) ==
  [doc |-> findById(coll, id), coll |-> coll \ findById(coll, id)]

\* UserService.getUserById
getUserById(U, userId) ==
  LET user == findById(U, userId)
  IN [error |-> IF user = {} THEN UserNotFoundMsg ELSE NoError, doc |-> user]

\* UserService.updateUser
updateUser(U, userId, updateData) ==
  LET r == findByIdAndUpdate(U, userId, updateData)
  IN IF r.error = "not found" THEN [r EXCEPT !.error = UserNotFoundMsg] ELSE r

\* UserService.deleteUser
deleteUser(U, userId) ==
  LET r == findByIdAndDelete(U, userId)
  IN [error |-> IF r.doc = {} THEN UserNotFoundMsg ELSE NoError, coll |-> r.coll]

\* UserService.getAllUsers
getAllUsers(U) == {selectMinusPassword(d) : d \in U}

\* ServiceProviderService.getServiceProviderById
getServiceProviderById(P, providerId) ==
  LET serviceProvider == findById(P, providerId)
  IN [error |-> IF serviceProvider = {} THEN ProviderNotFoundMsg ELSE NoError,
      doc |-> serviceProvider]

\* ServiceProviderService.updateServiceProvider
updateServiceProvider(P, providerId, updateData) ==
  LET r == findByIdAndUpdate(P, providerId, updateData)
  IN IF r.error = "not found" THEN [r EXCEPT !.error = ProviderNotFoundMsg] ELSE r

\* ServiceProviderService.deleteServiceProvider
deleteServiceProvider(P, providerId) ==
  LET r == findByIdAndDelete(P, providerId)
  IN [error |-> IF r.doc = {} THEN ProviderNotFoundMsg ELSE NoError, coll |-> r.coll]

\* ServiceProviderService.getAllServiceProviders
getAllServiceProviders(P) == {selectMinusPassword(d) : d \in P}

\* ServiceProviderService.getServiceProvidersByExpertise
getServiceProvidersByExpertise(P, expertise) ==
  {selectMinusPassword(d) : d \in {e \in P : e.expertise = expertise}}

\* ---------------------------------------------------------- auth middleware
\* Mutant: a verified token is let through without looking its account up.
auth_skipsLookup(U, P, token, t) ==
  LET decoded == jwt_verify(token, t)
  IN IF token.form = "none"
     THEN [status |-> 401, message |-> "Access denied. No token provided.",
           userType |-> "", userId |-> 0]
     ELSE IF decoded.error = "JsonWebTokenError"
     THEN [status |-> 401, message |-> "Invalid token.", userType |-> "", userId |-> 0]
     ELSE IF decoded.error = "TokenExpiredError"
     THEN [status |-> 401, message |-> "Token expired.", userType |-> "", userId |-> 0]
     ELSE [status |-> 0, message |-> "",
           userType |-> IF findById(P, decoded.userId) # {} THEN "serviceProvider"
                        ELSE "user",
           userId |-> decoded.userId]

\* Mutant: the payload of a token is used without verifying the token.
auth_noVerify(U, P, token, t) ==
  IF findById(U, token.userId) # {}
  THEN [status |-> 0, message |-> "", userType |-> "user", userId |-> token.userId]
  ELSE IF findById(P, token.userId) # {}
  THEN [status |-> 0, message |-> "", userType |-> "serviceProvider",
        userId |-> token.userId]
  ELSE [status |-> 401, message |-> "Invalid token. User not found.",
        userType |-> "", userId |-> 0]

\* auth: read the bearer token, verify it, then resolve its userId, users
\* first. status 0 stands for next().
auth(U, P, token, t) ==
  LET decoded == jwt_verify(token, t)
  IN IF token.form = "none"
     THEN [status |-> 401, message |-> "Access denied. No token provided.",
           userType |-> "", userId |-> 0]
     ELSE IF decoded.error = "JsonWebTokenError"
     THEN [status |-> 401, message |-> "Invalid token.", userType |-> "", userId |-> 0]
     ELSE IF decoded.error = "TokenExpiredError"
     THEN [status |-> 401, message |-> "Token expired.", userType |-> "", userId |-> 0]
     ELSE IF findById(U, decoded.userId) # {}
     THEN [status |-> 0, message |-> "", userType |-> "user", userId |-> decoded.userId]
     ELSE IF findById(P, decoded.userId) # {}
     THEN [status |-> 0, message |-> "", userType |-> "serviceProvider",
           userId |-> decoded.userId]
     ELSE [status |-> 401, message |-> "Invalid token. User not found.",
           userType |-> "", userId |-> 0]

\* Mutant: the kind check lets every authenticated account through.
isUser_anyKind(a) == TRUE

\* isUser / isServiceProvider: next() or 403
isUser(a) == a.userType = "user"
isServiceProvider(a) == a.userType = "serviceProvider"


\* ------------------------------------------------------------ request data
\* A token string a client makes up itself (never one randomBytes produces).
ClientToken == 0

\* Reset tokens a client can put into a request: its own string, and the ones
\* issued so far.
KnownTokens == {ClientToken} \cup (1 .. (nextToken - 1))

\* req.body of POST /auth/register and /auth/register-provider: the validated
\* fields, alone or with the reset paths of the schema added by the client.
RegisterBodies ==
  { [ email |-> e, password |-> p, firstName |-> "Ann", expertise |-> "Plumbing",
      resetPasswordToken |-> pl[1], resetPasswordExpires |-> pl[2] ] :
    e \in Emails, p \in Passwords,
    pl \in {<<Absent, Absent>>, <<ClientToken, FarFuture>>} }

\* The bodies the two registration routes are exercised with: regular
\* accounts sign up with one password, providers with the other, so that
\* two accounts sharing an email never share a password.
UserBodies == {b \in RegisterBodies : b.password = "secret1"}
ProviderBodies == {b \in RegisterBodies : b.password = "secret2"}

\* The Authorization header of a request: absent, a string that is no JWT, a
\* JWT login handed out (expired or not), or a JWT for an existing account
\* signed with another secret.
Bearers ==
  {NoToken, Malformed} \cup jwts
  \cup { [form |-> "jwt", userId |-> d.id, exp |-> FarFuture, signed |-> FALSE] :
          d \in users \cup providers }

\* req.params.id of GET /users/:id and /service-providers/:id
Ids == 1 .. MaxAccounts

\* req.params.expertise of GET /service-providers/expertise/:expertise
Expertise == {"Plumbing", "Electrical"}

\* req.body of PUT /users/profile and /service-providers/profile: any JSON
\* object passes (the validation chain only inspects the documented fields);
\* here the empty body, one path, or the reset pair.
UpdateBodies ==
  {NoPaths}
  \cup {[NoPaths EXCEPT !.firstName = n] : n \in Names}
  \cup {[NoPaths EXCEPT !.email = e] : e \in Emails}
  \cup {[NoPaths EXCEPT !.password = p] : p \in Passwords}
  \cup {[NoPaths EXCEPT !.resetPasswordToken = t] : t \in {Null, ClientToken}}
  \cup {[NoPaths EXCEPT !.resetPasswordExpires = x] : x \in {Null, 0, FarFuture}}
  \cup {[NoPaths EXCEPT !.resetPasswordToken = ClientToken,
                        !.resetPasswordExpires = FarFuture]}

\* The bodies sent along with a bearer: every body with a token login handed
\* out, the empty one with a header the middleware cannot accept.
BodiesWith(bearer) == IF bearer \in jwts THEN UpdateBodies ELSE {NoPaths}

\* What a controller sends: res.status(status).json(...) with the message,
\* the login result's token and userType, the registration result's userId
\* and the account objects of the JSON body, as serialized.
Reply(status, message) ==
  [status |-> status, message |-> message, token |-> NoToken, userType |-> "",
   userId |-> 0, body |-> {}]

\* res.json of a body that holds documents: each is serialized with toJSON.
ReplyWith(status, message, docs) ==
  [Reply(status, message) EXCEPT !.body = {toJSON(d) : d \in docs}]

\* The last request handled, as seen from outside (Spec): the handler, the
\* email or reset token the request carried, the reply, and the notification
\* the request handed to the mail transport (NoMail unless stated).
Response(op, email, token, reply) ==
  [op |-> op, email |-> email, resetToken |-> token, status |-> reply.status,
   message |-> reply.message, token |-> reply.token, userType |-> reply.userType,
   userId |-> reply.userId, body |-> reply.body, mail |-> NoMail]

NoResponse == Response("none", "", Null, Reply(0, ""))

\* A request slot of ConcSpec: the handler, where it stands (pc), its
\* arguments, the document its findOne resolved, whether its lookup let it
\* through to the save, and the status it answered.
NoRequest ==
  [ op |-> "idle", pc |-> "idle", body |-> NoPaths, token |-> Null,
    newPassword |-> "", userType |-> "", docId |-> 0, passed |-> FALSE, status |-> 0 ]

\* ------------------------------------------------------------------- Init
Init ==
  /\ users = {}
  /\ providers = {}
  /\ now = 0
  /\ nextId = 1
  /\ nextToken = 1
  /\ jwts = {}
  /\ resp = NoResponse
  /\ pending = {}
  /\ used = {}
  /\ reqs = [r \in 1 .. MaxReqs |-> NoRequest]
  /\ served = 0
  /\ limit = MaxRequests

\* ---------------------------------------------------------- AuthController
\* The try/catch of each handler: the service result to status and body.
\* Mutant: the handler has no branch for the 'already exists' error.
registerUserReply_noDuplicateBranch(result) ==
  IF result.error = NoError
  THEN [Reply(201, "User registered successfully") EXCEPT !.userId = result.userId]
  ELSE Reply(500, "Error registering user")

registerUserReply(result) ==
  IF result.error = NoError
  THEN [Reply(201, "User registered successfully") EXCEPT !.userId = result.userId]
  ELSE IF Includes(result.error, "already exists") THEN Reply(400, result.error)
  ELSE Reply(500, "Error registering user")

registerServiceProviderReply(result) ==
  IF result.error = NoError
  THEN [Reply(201, "Service provider registered successfully")
          EXCEPT !.userId = result.userId]
  ELSE IF Includes(result.error, "already exists") THEN Reply(400, result.error)
  ELSE Reply(500, "Error registering service provider")

loginReply(result) ==
  IF result.error = NoError
  THEN [Reply(200, "") EXCEPT !.token = result.token, !.userType = result.userType,
                              !.body = result.user]
  ELSE IF Includes(result.error, InvalidLoginMsg) THEN Reply(401, result.error)
  ELSE Reply(500, "Error during login")

\* Mutant: the catch-all branch answers with the text of the error it caught.
forgotPasswordReply_leaksError(result) ==
  IF result.error = NoError THEN Reply(200, "Password reset email sent successfully")
  ELSE IF Includes(result.error, "No account found") THEN Reply(404, result.error)
  ELSE Reply(500, result.error)

forgotPasswordReply(result) ==
  IF result.error = NoError THEN Reply(200, "Password reset email sent successfully")
  ELSE IF Includes(result.error, "No account found") THEN Reply(404, result.error)
  ELSE Reply(500, "Error sending forgot password email")

resetPasswordReply(result) ==
  IF result.error = NoError THEN Reply(200, "Password reset successfully")
  ELSE IF Includes(result.error, "Invalid or expired") THEN Reply(400, result.error)
  ELSE Reply(500, "Error resetting password")

\* POST /auth/register
AuthController_registerUser(body, mailOk) ==
  LET result == registerUser(users, body, nextId, mailOk)
  IN /\ served < limit
     /\ result.error # NoError \/ nextId <= MaxAccounts
     /\ served' = served + 1
     /\ users' = result.coll
     /\ nextId' = IF result.error = NoError THEN nextId + 1 ELSE nextId
     /\ resp' = [Response("registerUser", body.email, Null, registerUserReply(result))
                   EXCEPT !.mail = result.mail]
     /\ UNCHANGED <<providers, now, nextToken, jwts, pending, used, reqs, limit>>

\* POST /auth/register-provider
AuthController_registerServiceProvider(body, mailOk) ==
  LET result == registerServiceProvider(providers, body, nextId, mailOk)
  IN /\ served < limit
     /\ result.error # NoError \/ nextId <= MaxAccounts
     /\ served' = served + 1
     /\ providers' = result.coll
     /\ nextId' = IF result.error = NoError THEN nextId + 1 ELSE nextId
     /\ resp' = [Response("registerServiceProvider", body.email, Null,
                          registerServiceProviderReply(result))
                   EXCEPT !.mail = result.mail]
     /\ UNCHANGED <<users, now, nextToken, jwts, pending, used, reqs, limit>>

\* POST /auth/login
AuthController_login(email, password) ==
  LET result == login(users, providers, email, password, now)
  IN /\ served < limit
     /\ served' = served + 1
     /\ resp' = Response("login", email, Null, loginReply(result))
     /\ jwts' = IF result.error = NoError THEN jwts \cup {result.token} ELSE jwts
     /\ UNCHANGED <<users, providers, now, nextId, nextToken, pending, used, reqs, limit>>

\* POST /auth/forgot-password
AuthController_forgotPassword(email, mailOk) ==
  LET result == forgotPassword(users, providers, email, nextToken, now, mailOk)
      issued == result.userId # 0
  IN /\ served < limit
     /\ ~issued \/ nextToken <= MaxTokens
     /\ served' = served + 1
     /\ users' = result.users
     /\ providers' = result.providers
     /\ nextToken' = IF issued THEN nextToken + 1 ELSE nextToken
     /\ pending' = IF ~issued THEN pending
                   ELSE {q \in pending : q.id # result.userId \/ q.userType # result.userType}
                        \cup {[id |-> result.userId, userType |-> result.userType,
                               token |-> nextToken, expires |-> now + ResetWindow]}
     /\ resp' = [Response("forgotPassword", email, Null, forgotPasswordReply(result))
                   EXCEPT !.mail = result.mail]
     /\ UNCHANGED <<now, nextId, jwts, used, reqs, limit>>

\* POST /auth/reset-password
AuthController_resetPassword(token, newPassword, userType) ==
  LET result == resetPassword(users, providers, token, newPassword, userType, now)
      done   == result.error = NoError
  IN /\ served < limit
     /\ served' = served + 1
     /\ users' = result.users
     /\ providers' = result.providers
     /\ pending' = IF ~done THEN pending
                   ELSE {q \in pending : q.id # result.userId \/ q.userType # userType}
     /\ used' = IF done THEN used \cup {token} ELSE used
     /\ resp' = Response("resetPassword", "", token, resetPasswordReply(result))
     /\ UNCHANGED <<now, nextId, nextToken, jwts, reqs, limit>>

\* ---------------------------------------------- routes behind the middleware
\* The middleware chain in front of a handler: auth, then for a kind-matched
\* route isUser or isServiceProvider (kind "" for the routes open to every
\* authenticated account).
KindOk(a, kind) ==
  IF kind = "user" THEN isUser(a)
  ELSE IF kind = "serviceProvider" THEN isServiceProvider(a)
  ELSE TRUE

\* The handler runs only if every middleware called next().
Passes(a, kind) == a.status = 0 /\ KindOk(a, kind)

\* The response the chain sends when it does not reach the handler.
Blocked(a, kind) ==
  IF a.status # 0 THEN Reply(a.status, a.message)
  ELSE IF kind = "user" THEN Reply(403, "Access denied. User only.")
  ELSE Reply(403, "Access denied. Service provider only.")

\* A read that clears the reset fields of the regular accounts it passes.
ReadOnly_clearsResetFields ==
  /\ users' = {[d EXCEPT !.resetPasswordToken = Null, !.resetPasswordExpires = Null] :
                 d \in users}
  /\ UNCHANGED <<providers, now, nextId, nextToken, jwts, pending, used, reqs, limit>>

\* What every read-only route leaves alone.
ReadOnly == UNCHANGED <<users, providers, now, nextId, nextToken, jwts, pending, used, reqs, limit>>

\* GET /users/profile: auth, isUser, getUserProfile
UserController_getUserProfile(bearer) ==
  LET a == auth(users, providers, bearer, now)
      r == getUserById(users, a.userId)
  IN /\ served < limit
     /\ served' = served + 1
     /\ resp' = Response("getUserProfile", "", Null,
                  IF ~Passes(a, "user") THEN Blocked(a, "user")
                  ELSE IF r.error = NoError THEN ReplyWith(200, "", r.doc)
                  ELSE IF r.error = UserNotFoundMsg THEN Reply(404, r.error)
                  ELSE Reply(500, "Error fetching user profile"))
     /\ ReadOnly

\* PUT /users/profile: auth, isUser, validateUserUpdate, updateUserProfile
UserController_updateUserProfile(bearer, body) ==
  LET a == auth(users, providers, bearer, now)
      r == updateUser(users, a.userId, body)
  IN /\ served < limit
     /\ served' = served + 1
     /\ users' = IF Passes(a, "user") THEN r.coll ELSE users
     /\ resp' = Response("updateUserProfile", "", Null,
                  IF ~Passes(a, "user") THEN Blocked(a, "user")
                  ELSE IF r.error = NoError
                  THEN ReplyWith(200, "User profile updated successfully", r.doc)
                  ELSE IF r.error = UserNotFoundMsg THEN Reply(404, r.error)
                  ELSE Reply(500, "Error updating user profile"))
     /\ UNCHANGED <<providers, now, nextId, nextToken, jwts, pending, used, reqs, limit>>

\* DELETE /users/profile: auth, isUser, deleteUser
UserController_deleteUser(bearer) ==
  LET a == auth(users, providers, bearer, now)
      r == deleteUser(users, a.userId)
      run == Passes(a, "user")
  IN /\ served < limit
     /\ served' = served + 1
     /\ users' = IF run THEN r.coll ELSE users
     /\ pending' = IF run THEN {q \in pending : q.id # a.userId \/ q.userType # "user"}
                   ELSE pending
     /\ resp' = Response("deleteUser", "", Null,
                  IF ~run THEN Blocked(a, "user")
                  ELSE IF r.error = NoError THEN Reply(200, "User deleted successfully")
                  ELSE IF r.error = UserNotFoundMsg THEN Reply(404, r.error)
                  ELSE Reply(500, "Error deleting user"))
     /\ UNCHANGED <<providers, now, nextId, nextToken, jwts, used, reqs, limit>>

\* GET /users/:id: auth, getUserById
UserController_getUserById(bearer, id) ==
  LET a == auth(users, providers, bearer, now)
      r == getUserById(users, id)
  IN /\ served < limit
     /\ served' = served + 1
     /\ resp' = Response("getUserById", "", Null,
                  IF ~Passes(a, "") THEN Blocked(a, "")
                  ELSE IF r.error = NoError THEN ReplyWith(200, "", r.doc)
                  ELSE IF r.error = UserNotFoundMsg THEN Reply(404, r.error)
                  ELSE Reply(500, "Error fetching user"))
     /\ ReadOnly

\* GET /users: auth, getAllUsers
UserController_getAllUsers(bearer) ==
  LET a == auth(users, providers, bearer, now)
  IN /\ served < limit
     /\ served' = served + 1
     /\ resp' = Response("getAllUsers", "", Null,
                  IF ~Passes(a, "") THEN Blocked(a, "")
                  ELSE ReplyWith(200, "", getAllUsers(users)))
     /\ ReadOnly

\* GET /service-providers/profile: auth, isServiceProvider, getServiceProviderProfile
ServiceProviderController_getServiceProviderProfile(bearer) ==
  LET a == auth(users, providers, bearer, now)
      r == getServiceProviderById(providers, a.userId)
  IN /\ served < limit
     /\ served' = served + 1
     /\ resp' = Response("getServiceProviderProfile", "", Null,
                  IF ~Passes(a, "serviceProvider") THEN Blocked(a, "serviceProvider")
                  ELSE IF r.error = NoError THEN ReplyWith(200, "", r.doc)
                  ELSE IF r.error = ProviderNotFoundMsg THEN Reply(404, r.error)
                  ELSE Reply(500, "Error fetching service provider profile"))
     /\ ReadOnly

\* PUT /service-providers/profile: auth, isServiceProvider,
\* validateServiceProviderUpdate, updateServiceProviderProfile
ServiceProviderController_updateServiceProviderProfile(bearer, body) ==
  LET a == auth(users, providers, bearer, now)
      r == updateServiceProvider(providers, a.userId, body)
  IN /\ served < limit
     /\ served' = served + 1
     /\ providers' = IF Passes(a, "serviceProvider") THEN r.coll ELSE providers
     /\ resp' = Response("updateServiceProviderProfile", "", Null,
                  IF ~Passes(a, "serviceProvider") THEN Blocked(a, "serviceProvider")
                  ELSE IF r.error = NoError
                  THEN ReplyWith(200, "Service provider profile updated successfully", r.doc)
                  ELSE IF r.error = ProviderNotFoundMsg THEN Reply(404, r.error)
                  ELSE Reply(500, "Error updating service provider profile"))
     /\ UNCHANGED <<users, now, nextId, nextToken, jwts, pending, used, reqs, limit>>

\* DELETE /service-providers/profile: auth, isServiceProvider, deleteServiceProvider
ServiceProviderController_deleteServiceProvider(bearer) ==
  LET a == auth(users, providers, bearer, now)
      r == deleteServiceProvider(providers, a.userId)
      run == Passes(a, "serviceProvider")
  IN /\ served < limit
     /\ served' = served + 1
     /\ providers' = IF run THEN r.coll ELSE providers
     /\ pending' = IF run
                   THEN {q \in pending : q.id # a.userId \/ q.userType # "serviceProvider"}
                   ELSE pending
     /\ resp' = Response("deleteServiceProvider", "", Null,
                  IF ~run THEN Blocked(a, "serviceProvider")
                  ELSE IF r.error = NoError
                  THEN Reply(200, "Service provider deleted successfully")
                  ELSE IF r.error = ProviderNotFoundMsg THEN Reply(404, r.error)
                  ELSE Reply(500, "Error deleting service provider"))
     /\ UNCHANGED <<users, now, nextId, nextToken, jwts, used, reqs, limit>>

\* GET /service-providers/:id: auth, getServiceProviderById
ServiceProviderController_getServiceProviderById(bearer, id) ==
  LET a == auth(users, providers, bearer, now)
      r == getServiceProviderById(providers, id)
  IN /\ served < limit
     /\ served' = served + 1
     /\ resp' = Response("getServiceProviderById", "", Null,
                  IF ~Passes(a, "") THEN Blocked(a, "")
                  ELSE IF r.error = NoError THEN ReplyWith(200, "", r.doc)
                  ELSE IF r.error = ProviderNotFoundMsg THEN Reply(404, r.error)
                  ELSE Reply(500, "Error fetching service provider"))
     /\ ReadOnly

\* GET /service-providers: auth, getAllServiceProviders
ServiceProviderController_getAllServiceProviders(bearer) ==
  LET a == auth(users, providers, bearer, now)
  IN /\ served < limit
     /\ served' = served + 1
     /\ resp' = Response("getAllServiceProviders", "", Null,
                  IF ~Passes(a, "") THEN Blocked(a, "")
                  ELSE ReplyWith(200, "", getAllServiceProviders(providers)))
     /\ ReadOnly

\* GET /service-providers/expertise/:expertise: no middleware
ServiceProviderController_getServiceProvidersByExpertise(expertise) ==
  /\ served < limit
  /\ served' = served + 1
  /\ resp' = Response("getServiceProvidersByExpertise", "", Null,
               ReplyWith(200, "", getServiceProvidersByExpertise(providers, expertise)))
  /\ ReadOnly

\* Time passes.
Tick ==
  /\ now < MaxTime
  /\ now' = now + 1
  /\ UNCHANGED <<users, providers, nextId, nextToken, jwts, resp, pending, used, reqs, served, limit>>

RegisterUser ==
  \E body \in UserBodies, mailOk \in BOOLEAN : AuthController_registerUser(body, mailOk)
RegisterServiceProvider ==
  \E body \in ProviderBodies, mailOk \in BOOLEAN :
    AuthController_registerServiceProvider(body, mailOk)
Login ==
  \E email \in Emails, password \in Passwords : AuthController_login(email, password)
ForgotPassword ==
  \E email \in Emails, mailOk \in BOOLEAN : AuthController_forgotPassword(email, mailOk)
ResetPassword ==
  \E token \in KnownTokens, newPassword \in Passwords, userType \in UserTypes :
    AuthController_resetPassword(token, newPassword, userType)
GetUserProfile == \E bearer \in Bearers : UserController_getUserProfile(bearer)
UpdateUserProfile ==
  \E bearer \in Bearers : \E body \in BodiesWith(bearer) :
    UserController_updateUserProfile(bearer, body)
DeleteUser == \E bearer \in Bearers : UserController_deleteUser(bearer)
GetUserById == \E bearer \in Bearers, id \in Ids : UserController_getUserById(bearer, id)
GetAllUsers == \E bearer \in Bearers : UserController_getAllUsers(bearer)
GetServiceProviderProfile ==
  \E bearer \in Bearers : ServiceProviderController_getServiceProviderProfile(bearer)
UpdateServiceProviderProfile ==
  \E bearer \in Bearers : \E body \in BodiesWith(bearer) :
    ServiceProviderController_updateServiceProviderProfile(bearer, body)
DeleteServiceProvider ==
  \E bearer \in Bearers : ServiceProviderController_deleteServiceProvider(bearer)
GetServiceProviderById ==
  \E bearer \in Bearers, id \in Ids :
    ServiceProviderController_getServiceProviderById(bearer, id)
GetAllServiceProviders ==
  \E bearer \in Bearers : ServiceProviderController_getAllServiceProviders(bearer)
GetServiceProvidersByExpertise ==
  \E expertise \in Expertise :
    ServiceProviderController_getServiceProvidersByExpertise(expertise)

Next ==
  \/ RegisterUser
  \/ RegisterServiceProvider
  \/ Login
  \/ ForgotPassword
  \/ ResetPassword
  \/ UpdateUserProfile
  \/ UpdateServiceProviderProfile
  \/ Tick

\* The authentication and account-lifecycle workflow.
Spec == Init /\ [][Next]_vars

\* Registration and login with every route behind the middleware, and the
\* public listing by expertise.
ApiNext ==
  \/ RegisterUser
  \/ RegisterServiceProvider
  \/ Login
  \/ GetUserProfile
  \/ UpdateUserProfile
  \/ DeleteUser
  \/ GetUserById
  \/ GetAllUsers
  \/ GetServiceProviderProfile
  \/ UpdateServiceProviderProfile
  \/ DeleteServiceProvider
  \/ GetServiceProviderById
  \/ GetAllServiceProviders
  \/ GetServiceProvidersByExpertise
  \/ Tick

ApiSpec == Init /\ [][ApiNext]_vars


\* ------------------------------------------------------------------ ConcSpec
\* Each step of a handler is the code up to and including one awaited store
\* operation; a new request takes the first slot that is idle or answered.
Free(r) ==
  /\ reqs[r].pc \in {"idle", "done"}
  /\ \A q \in 1 .. (r - 1) : reqs[q].pc \notin {"idle", "done"}

Answer(r, rq, status) ==
  reqs' = [reqs EXCEPT ![r] = [rq EXCEPT !.pc = "done", !.status = status, !.docId = 0,
                                         !.body = [NoPaths EXCEPT !.email = rq.body.email]]]

ConcUnchanged == UNCHANGED <<now, jwts, resp, pending, used, limit>>

\* registerUser / registerServiceProvider up to `await Model.findOne({email})`
RegisterFind(r, userType, body) ==
  LET rq == [NoRequest EXCEPT !.op = "register", !.userType = userType, !.body = body]
      Model == IF userType = "serviceProvider" THEN providers ELSE users
  IN /\ Free(r) /\ served < MaxStarted
     /\ served' = served + 1
     /\ IF findOneByEmail(Model, body.email) # {}
        THEN Answer(r, rq, 400)
        ELSE reqs' = [reqs EXCEPT ![r] = [rq EXCEPT !.pc = "save", !.passed = TRUE]]
     /\ UNCHANGED <<users, providers, nextId, nextToken>>
     /\ ConcUnchanged

\* ... from `await user.save()` to the response
RegisterSave(r, mailOk) ==
  LET rq == reqs[r]
      result == IF rq.userType = "serviceProvider"
                THEN registerServiceProviderSave(providers, rq.body, nextId, mailOk)
                ELSE registerUserSave(users, rq.body, nextId, mailOk)
  IN /\ rq.op = "register" /\ rq.pc = "save"
     /\ result.error # NoError \/ nextId <= MaxAccounts
     /\ users' = IF rq.userType = "serviceProvider" THEN users ELSE result.coll
     /\ providers' = IF rq.userType = "serviceProvider" THEN result.coll ELSE providers
     /\ nextId' = IF result.error = NoError THEN nextId + 1 ELSE nextId
     /\ Answer(r, rq, IF result.error = NoError THEN 201
                      ELSE IF Includes(result.error, "already exists") THEN 400 ELSE 500)
     /\ UNCHANGED <<nextToken, served>>
     /\ ConcUnchanged

\* forgotPassword up to `await User.findOne({email})`
ForgotFindUser(r, email) ==
  LET rq == [NoRequest EXCEPT !.op = "forgotPassword", !.body = [NoPaths EXCEPT !.email = email]]
      u  == findOneByEmail(users, email)
  IN /\ Free(r) /\ served < MaxStarted
     /\ served' = served + 1
     /\ reqs' = [reqs EXCEPT ![r] =
                   IF u = {} THEN [rq EXCEPT !.pc = "findProvider"]
                   ELSE [rq EXCEPT !.pc = "save", !.userType = "user",
                                   !.docId = (CHOOSE d \in u : TRUE).id]]
     /\ UNCHANGED <<users, providers, nextId, nextToken>>
     /\ ConcUnchanged

\* ... `await ServiceProvider.findOne({email})`
ForgotFindProvider(r) ==
  LET rq == reqs[r]
      u  == findOneByEmail(providers, rq.body.email)
  IN /\ rq.op = "forgotPassword" /\ rq.pc = "findProvider"
     /\ IF u = {} THEN Answer(r, rq, 404)
        ELSE reqs' = [reqs EXCEPT ![r] =
                        [rq EXCEPT !.pc = "save", !.userType = "serviceProvider",
                                   !.docId = (CHOOSE d \in u : TRUE).id]]
     /\ UNCHANGED <<users, providers, nextId, nextToken, served>>
     /\ ConcUnchanged

\* ... the token, `await user.save()`, the notification and the response
ForgotSave(r, mailOk) ==
  LET rq == reqs[r]
      result == forgotPasswordSave(users, providers, rq.docId, rq.userType,
                                   nextToken, now, mailOk)
  IN /\ rq.op = "forgotPassword" /\ rq.pc = "save"
     /\ nextToken <= MaxTokens
     /\ users' = result.users
     /\ providers' = result.providers
     /\ nextToken' = nextToken + 1
     /\ Answer(r, [rq EXCEPT !.token = nextToken],
               IF result.error = NoError THEN 200 ELSE 500)
     /\ UNCHANGED <<nextId, served>>
     /\ ConcUnchanged

\* resetPassword up to `await Model.findOne({resetPasswordToken, resetPasswordExpires})`
ResetFind(r, token, newPassword, userType) ==
  LET rq == [NoRequest EXCEPT !.op = "resetPassword", !.token = token,
                              !.newPassword = newPassword, !.userType = userType]
      Model == IF userType = "serviceProvider" THEN providers ELSE users
      user  == findOneByResetToken(Model, token, now)
  IN /\ Free(r) /\ served < MaxStarted
     /\ served' = served + 1
     /\ IF user = {} THEN Answer(r, rq, 400)
        ELSE reqs' = [reqs EXCEPT ![r] =
                        [rq EXCEPT !.pc = "save", !.passed = TRUE,
                                   !.docId = (CHOOSE d \in user : TRUE).id]]
     /\ UNCHANGED <<users, providers, nextId, nextToken>>
     /\ ConcUnchanged

\* ... the three assignments, `await user.save()` and the response
ResetSave(r) ==
  LET rq == reqs[r]
      result == resetPasswordSave(users, providers, rq.docId, rq.userType, rq.newPassword)
  IN /\ rq.op = "resetPassword" /\ rq.pc = "save"
     /\ users' = result.users
     /\ providers' = result.providers
     /\ Answer(r, rq, 200)
     /\ UNCHANGED <<nextId, nextToken, served>>
     /\ ConcUnchanged

ConcTick ==
  /\ now < MaxTime
  /\ now' = now + 1
  /\ UNCHANGED <<users, providers, nextId, nextToken, jwts, resp, pending, used, reqs, served, limit>>

Slots == 1 .. MaxReqs

\* The registrations that race: they meet on one email, with the documented
\* fields only.
ConcBodies(userType) ==
  {b \in (IF userType = "user" THEN UserBodies ELSE ProviderBodies) :
     b.email = "a@x.com" /\ b.resetPasswordToken = Absent}

ConcRegisterFind ==
  \E r \in Slots, userType \in UserTypes : \E body \in ConcBodies(userType) :
    RegisterFind(r, userType, body)
ConcRegisterSave == \E r \in Slots, mailOk \in BOOLEAN : RegisterSave(r, mailOk)
ConcForgotFindUser == \E r \in Slots, email \in Emails : ForgotFindUser(r, email)
ConcForgotFindProvider == \E r \in Slots : ForgotFindProvider(r)
ConcForgotSave == \E r \in Slots, mailOk \in BOOLEAN : ForgotSave(r, mailOk)
ConcResetFind ==
  \E r \in Slots, token \in KnownTokens, newPassword \in Passwords, userType \in UserTypes :
    ResetFind(r, token, newPassword, userType)
ConcResetSave == \E r \in Slots : ResetSave(r)

ConcNext ==
  \/ ConcRegisterFind
  \/ ConcRegisterSave
  \/ ConcForgotFindUser
  \/ ConcForgotFindProvider
  \/ ConcForgotSave
  \/ ConcResetFind
  \/ ConcResetSave
  \/ ConcTick

ConcSpec == Init /\ [][ConcNext]_vars


\* --------------------------------------------------------------- SessionSpec
\* A longer run of the whole API around one email: an account of each kind
\* for it, registered with the documented fields, logs in, asks for and uses
\* reset tokens, reads, renames and deletes itself.
SessionInit ==
  /\ users = {}
  /\ providers = {}
  /\ now = 0
  /\ nextId = 1
  /\ nextToken = 1
  /\ jwts = {}
  /\ resp = NoResponse
  /\ pending = {}
  /\ used = {}
  /\ reqs = [r \in 1 .. MaxReqs |-> NoRequest]
  /\ served = 0
  /\ limit = MaxSession

\* The Authorization header of a session request: absent, or a JWT login
\* handed out.
SessionBearers == {NoToken} \cup jwts

SessionRegister ==
  \/ \E body \in ConcBodies("user") : AuthController_registerUser(body, TRUE)
  \/ \E body \in ConcBodies("serviceProvider") :
       AuthController_registerServiceProvider(body, TRUE)
SessionLogin ==
  \E password \in Passwords : AuthController_login("a@x.com", password)
SessionForgotPassword ==
  \E mailOk \in BOOLEAN : AuthController_forgotPassword("a@x.com", mailOk)
SessionResetPassword ==
  \E token \in KnownTokens, userType \in UserTypes :
    AuthController_resetPassword(token, "secret2", userType)
SessionProfile ==
  \E bearer \in SessionBearers :
    \/ UserController_getUserProfile(bearer)
    \/ UserController_updateUserProfile(bearer, [NoPaths EXCEPT !.firstName = "Bob"])
    \/ UserController_deleteUser(bearer)
    \/ ServiceProviderController_getServiceProviderProfile(bearer)
    \/ ServiceProviderController_updateServiceProviderProfile(
         bearer, [NoPaths EXCEPT !.firstName = "Bob"])
    \/ ServiceProviderController_deleteServiceProvider(bearer)
SessionRead ==
  \/ \E bearer \in SessionBearers :
       \/ \E id \in Ids : UserController_getUserById(bearer, id)
       \/ UserController_getAllUsers(bearer)
       \/ \E id \in Ids : ServiceProviderController_getServiceProviderById(bearer, id)
       \/ ServiceProviderController_getAllServiceProviders(bearer)
  \/ GetServiceProvidersByExpertise

SessionNext ==
  \/ SessionRegister
  \/ SessionLogin
  \/ SessionForgotPassword
  \/ SessionResetPassword
  \/ SessionProfile
  \/ SessionRead
  \/ Tick

SessionSpec == SessionInit /\ [][SessionNext]_vars


\* -------------------------------------------------------------- AccountsSpec
\* Accounts of both kinds under either email sign up with the documented
\* fields, log in, and delete themselves through the own-profile routes.
PlainBodies(userType) ==
  {b \in (IF userType = "user" THEN UserBodies ELSE ProviderBodies) :
     b.resetPasswordToken = Absent}

AccountsRegister ==
  \/ \E body \in PlainBodies("user") : AuthController_registerUser(body, TRUE)
  \/ \E body \in PlainBodies("serviceProvider") :
       AuthController_registerServiceProvider(body, TRUE)
AccountsLogin ==
  \E email \in Emails, password \in Passwords : AuthController_login(email, password)
AccountsDelete ==
  \E bearer \in SessionBearers :
    \/ UserController_deleteUser(bearer)
    \/ ServiceProviderController_deleteServiceProvider(bearer)

AccountsNext ==
  \/ AccountsRegister
  \/ AccountsLogin
  \/ AccountsDelete
  \/ Tick

AccountsSpec == SessionInit /\ [][AccountsNext]_vars


\* ================================================================== claims
Accounts == users \cup providers
Collection(userType) == IF userType = "serviceProvider" THEN providers ELSE users

\* C1: in every reachable state the stored password of every account of either
\* kind is a one-way hash, never a plaintext string a client submitted, and it
\* verifies against the plaintext most recently set for that account.
C1_StoredPasswordIsHash ==
  \A d \in Accounts :
    /\ d.password # Verbatim(d.password.text)
    /\ comparePassword(d, d.password.text)

\* C2: in every reachable state, for every account of either kind,
\* resetPasswordToken and resetPasswordExpires are both null or both set.
C2_ResetFieldsPaired ==
  \A d \in Accounts : (d.resetPasswordToken = Null) <=> (d.resetPasswordExpires = Null)

\* C3: a login that fails because no account in either collection has the
\* email and a login that fails because the password does not verify are
\* answered alike, 401 with 'Invalid email or password' and no token, and
\* neither changes the store.
UnknownEmail(email) == \A d \in Accounts : d.email # email
WrongPassword(email, password) ==
  \E d \in resolveByEmail(users, providers, email).found : ~comparePassword(d, password)

C3_LoginFailuresAlike ==
  [][\A email \in Emails, password \in Passwords :
       (/\ resp'.op = "login" /\ resp'.email = email
        /\ AuthController_login(email, password)
        /\ UnknownEmail(email) \/ WrongPassword(email, password))
       => /\ resp' = Response("login", email, Null, Reply(401, InvalidLoginMsg))
          /\ users' = users /\ providers' = providers
          /\ jwts' = jwts]_vars

\* Reached: every email has an account, and a login was just refused (so for
\* a wrong password), with the same reply an unknown email gets.
C3_Witness ==
  /\ resp.op = "login" /\ resp.status = 401 /\ resp.message = InvalidLoginMsg
  /\ \A email \in Emails : ~UnknownEmail(email)

\* C4: for every stored account of either kind, Login with its email and its
\* current password returns 200 with a token that verifies to that account's
\* id, together with that account's kind.
LoginSucceedsFor(d, userType) ==
  LET result == login(users, providers, d.email, d.password.text, now)
  IN /\ loginReply(result).status = 200
     /\ jwt_verify(result.token, now) = [error |-> "", userId |-> d.id]
     /\ result.userType = userType

C4_LoginSucceedsForEveryAccount ==
  /\ \A d \in users : LoginSucceedsFor(d, "user")
  /\ \A d \in providers : LoginSucceedsFor(d, "serviceProvider")

\* C5: a reset token issued by ForgotPassword for an account, presented to
\* ResetPassword with that account's kind while now < expiry and before any
\* other ForgotPassword or ResetPassword on the account, succeeds; afterwards
\* Login with the old password fails and Login with the new password succeeds.
C5_IssuedTokenResets ==
  \A q \in pending : \A newPassword \in Passwords :
    now < q.expires =>
      LET result == resetPassword(users, providers, q.token, newPassword, q.userType, now)
          email  == (CHOOSE d \in findById(Collection(q.userType), q.id) : TRUE).email
      IN /\ resetPasswordReply(result).status = 200
         /\ login(result.users, result.providers, email, newPassword, now).error = NoError
         /\ \A old \in Passwords \ {newPassword} :
              login(result.users, result.providers, email, old, now).error = InvalidLoginMsg

\* C6: ResetPassword presented with a stored token at a time
\* now >= resetPasswordExpires is rejected with 400 'Invalid or expired reset
\* token', and no account's password or reset fields change.
StoredAndExpired(token) ==
  /\ \E d \in Accounts : d.resetPasswordToken = token
  /\ \A d \in Accounts :
       d.resetPasswordToken = token =>
         d.resetPasswordExpires = Null \/ now >= d.resetPasswordExpires

C6_ExpiredTokenRejected ==
  \A token \in KnownTokens, newPassword \in Passwords, userType \in UserTypes :
    StoredAndExpired(token) =>
      LET result == resetPassword(users, providers, token, newPassword, userType, now)
      IN /\ resetPasswordReply(result) = Reply(400, InvalidResetMsg)
         /\ result.users = users
         /\ result.providers = providers

\* Reached: a token issued by forgotPassword is still stored, its hour is
\* over, and the reset request carrying it was just answered 400.
C6_Witness ==
  /\ resp.op = "resetPassword" /\ resp.status = 400
  /\ \E q \in pending :
       /\ q.token = resp.resetToken
       /\ now >= q.expires
       /\ \E d \in Accounts : d.resetPasswordToken = q.token /\ d.resetPasswordExpires = q.expires

\* C7: after a successful ResetPassword with token T, every later
\* ResetPassword carrying T (any kind, any new password) is rejected with 400
\* and changes nothing (forgotPassword never issues T again).
C7_UsedTokenRejected ==
  \A token \in used, newPassword \in Passwords, userType \in UserTypes :
    LET result == resetPassword(users, providers, token, newPassword, userType, now)
    IN /\ resetPasswordReply(result) = Reply(400, InvalidResetMsg)
       /\ result.users = users
       /\ result.providers = providers

\* C8: of two ResetPassword requests carrying the same valid token and kind,
\* with their findOne and save steps interleaved, at most one answers 200.
C8_TokenSingleUseUnderRace ==
  \A r1, r2 \in Slots :
    (/\ r1 # r2
     /\ reqs[r1].op = "resetPassword" /\ reqs[r2].op = "resetPassword"
     /\ reqs[r1].pc = "done" /\ reqs[r2].pc = "done"
     /\ reqs[r1].token = reqs[r2].token /\ reqs[r1].userType = reqs[r2].userType)
    => ~(reqs[r1].status = 200 /\ reqs[r2].status = 200)

\* C9: registering an email that already exists in the target kind's
\* collection is answered 400 with a message containing 'already exists' and
\* leaves the whole store unchanged; registering an email the target kind's
\* collection lacks is answered 201 and adds the account, whether or not the
\* other kind holds that email.
HasEmail(coll, email) == \E d \in coll : d.email = email

C9_DuplicateRegistration ==
  [][\A body \in RegisterBodies, mailOk \in BOOLEAN :
       /\ (/\ resp'.op = "registerUser" /\ resp'.email = body.email
           /\ AuthController_registerUser(body, mailOk)) =>
            IF HasEmail(users, body.email)
            THEN /\ resp'.status = 400 /\ Includes(resp'.message, "already exists")
                 /\ users' = users /\ providers' = providers
            ELSE /\ resp'.status = 201
                 /\ providers' = providers
                 /\ \E d \in users' : d.email = body.email /\ d \notin users
                                      /\ users' = users \cup {d}
       /\ (/\ resp'.op = "registerServiceProvider" /\ resp'.email = body.email
           /\ AuthController_registerServiceProvider(body, mailOk)) =>
            IF HasEmail(providers, body.email)
            THEN /\ resp'.status = 400 /\ Includes(resp'.message, "already exists")
                 /\ users' = users /\ providers' = providers
            ELSE /\ resp'.status = 201
                 /\ users' = users
                 /\ \E d \in providers' : d.email = body.email /\ d \notin providers
                                          /\ providers' = providers \cup {d}]_vars

\* Reached: the email is held by an account of each kind (the second kind
\* registered it independently) and a further registration of it was refused.
C9_Witness ==
  /\ resp.op \in {"registerUser", "registerServiceProvider"} /\ resp.status = 400
  /\ HasEmail(users, resp.email) /\ HasEmail(providers, resp.email)

\* C10: no two accounts of the same kind share an email, also when two
\* Register requests for one email and kind interleave between the findOne
\* and the save: one creates the account, the other is answered 400, not 500.
UniqueEmails(coll) == \A d, e \in coll : d.email = e.email => d = e

C10_UniqueEmailUnderRace ==
  /\ UniqueEmails(users) /\ UniqueEmails(providers)
  /\ \A r \in Slots :
       (reqs[r].op = "register" /\ reqs[r].pc = "done") =>
         /\ reqs[r].status \in {201, 400}
         /\ HasEmail(Collection(reqs[r].userType), reqs[r].body.email)
  /\ \A r1, r2 \in Slots :
       (/\ r1 # r2
        /\ reqs[r1].op = "register" /\ reqs[r2].op = "register"
        /\ reqs[r1].pc = "done" /\ reqs[r2].pc = "done"
        /\ reqs[r1].body.email = reqs[r2].body.email
        /\ reqs[r1].userType = reqs[r2].userType)
       => ~(reqs[r1].status = 201 /\ reqs[r2].status = 201)

\* Reached: two registrations of one email and kind both passed the findOne;
\* one was answered 201, the other 400.
C10_Witness ==
  \E r1, r2 \in Slots :
    /\ reqs[r1].op = "register" /\ reqs[r2].op = "register"
    /\ reqs[r1].pc = "done" /\ reqs[r2].pc = "done"
    /\ reqs[r1].body.email = reqs[r2].body.email
    /\ reqs[r1].userType = reqs[r2].userType
    /\ reqs[r1].passed /\ reqs[r2].passed
    /\ reqs[r1].status = 201 /\ reqs[r2].status = 400

\* C11: no response body contains the password field. Whatever the last
\* request was (registration, login, own profile read or update, fetch by
\* id, listing, listing by expertise, or a request the middleware refused),
\* none of the account objects in its JSON body has a "password" key.
C11_NoPasswordInResponses ==
  \A o \in resp.body : "password" \notin DOMAIN o

\* Reached: a profile update answered 200 with the updated account, whose
\* stored document holds a password.
C11_Witness ==
  /\ resp.op = "updateUserProfile" /\ resp.status = 200
  /\ \E d \in users : "password" \in DOMAIN d /\ resp.body = {toJSON(d)}

\* C12: a profile update whose body contains only firstName leaves the
\* account's stored password exactly as it was (it is not hashed again) and
\* changes no field but firstName: the collection after the update is the
\* collection before it with that one document's firstName replaced, and
\* the other collection is untouched.
OnlyFirstName(n) == [NoPaths EXCEPT !.firstName = n]

ValidTokenOf(bearer, coll) ==
  /\ bearer \in jwts
  /\ jwt_verify(bearer, now).error = ""
  /\ findById(coll, bearer.userId) # {}

Refused(status) ==
  /\ resp'.status = status /\ resp'.body = {}
  /\ users' = users /\ providers' = providers

C13_OtherKindForbidden ==
  [][\A bearer \in Bearers :
       /\ (/\ ValidTokenOf(bearer, providers)
           /\ \/ resp'.op = "getUserProfile" /\ UserController_getUserProfile(bearer)
              \/ /\ resp'.op = "updateUserProfile"
                 /\ \E body \in UpdateBodies : UserController_updateUserProfile(bearer, body)
              \/ resp'.op = "deleteUser" /\ UserController_deleteUser(bearer))
          => Refused(403)
       /\ (/\ ValidTokenOf(bearer, users)
           /\ \/ /\ resp'.op = "getServiceProviderProfile"
                 /\ ServiceProviderController_getServiceProviderProfile(bearer)
              \/ /\ resp'.op = "updateServiceProviderProfile"
                 /\ \E body \in UpdateBodies :
                      ServiceProviderController_updateServiceProviderProfile(bearer, body)
              \/ /\ resp'.op = "deleteServiceProvider"
                 /\ ServiceProviderController_deleteServiceProvider(bearer))
          => Refused(403)]_vars

\* Reached: a provider holds a token that verifies now, and
\* DELETE /users/profile was just answered 403.
C13_Witness ==
  /\ resp.op = "deleteUser" /\ resp.status = 403
  /\ \E bearer \in jwts : ValidTokenOf(bearer, providers)

\* C14: on every route behind the auth middleware, a request with no token,
\* with a string that is no JWT, with a JWT whose signature is not the
\* server's, or with an expired JWT is answered 401; the handler does not
\* run: the response carries no account and both collections are unchanged.
Unauthenticated(bearer) ==
  \/ bearer.form = "none"
  \/ bearer.form = "garbage"
  \/ bearer.form = "jwt" /\ ~bearer.signed
  \/ bearer.form = "jwt" /\ bearer.signed /\ now >= bearer.exp

C14_UnauthenticatedRefused ==
  [][\A bearer \in Bearers :
       (/\ Unauthenticated(bearer)
        /\ \/ resp'.op = "getUserProfile" /\ UserController_getUserProfile(bearer)
           \/ /\ resp'.op = "updateUserProfile"
              /\ \E body \in UpdateBodies : UserController_updateUserProfile(bearer, body)
           \/ resp'.op = "deleteUser" /\ UserController_deleteUser(bearer)
           \/ /\ resp'.op = "getUserById"
              /\ \E id \in Ids : UserController_getUserById(bearer, id)
           \/ resp'.op = "getAllUsers" /\ UserController_getAllUsers(bearer)
           \/ /\ resp'.op = "getServiceProviderProfile"
              /\ ServiceProviderController_getServiceProviderProfile(bearer)
           \/ /\ resp'.op = "updateServiceProviderProfile"
              /\ \E body \in UpdateBodies :
                   ServiceProviderController_updateServiceProviderProfile(bearer, body)
           \/ /\ resp'.op = "deleteServiceProvider"
              /\ ServiceProviderController_deleteServiceProvider(bearer)
           \/ /\ resp'.op = "getServiceProviderById"
              /\ \E id \in Ids : ServiceProviderController_getServiceProviderById(bearer, id)
           \/ /\ resp'.op = "getAllServiceProviders"
              /\ ServiceProviderController_getAllServiceProviders(bearer))
       => Refused(401)]_vars

\* Reached: the only token login ever issued has expired, its account still
\* exists, and DELETE /users/profile was just answered 401 'Token expired.'.
C14_Witness ==
  /\ resp.op = "deleteUser" /\ resp.status = 401 /\ resp.message = "Token expired."
  /\ jwts # {}
  /\ \A bearer \in jwts : now >= bearer.exp /\ findById(users, bearer.userId) # {}

\* C15: a failure to deliver the welcome notification never fails the
\* registration. A registration of an email its collection does not hold
\* yet is answered 201 with the id of the new account, and the account is
\* in the collection, whether the mail transport delivered the welcome
\* message or threw.
C15_WelcomeFailureIgnored ==
  [][\A body \in RegisterBodies, mailOk \in BOOLEAN :
       /\ (/\ resp'.op = "registerUser" /\ resp'.email = body.email
           /\ ~HasEmail(users, body.email)
           /\ AuthController_registerUser(body, mailOk))
          => /\ resp'.status = 201
             /\ resp'.mail = WelcomeMail(body.email, mailOk)
             /\ findById(users, resp'.userId) = {}
             /\ \E d \in findById(users', resp'.userId) : d.email = body.email
       /\ (/\ resp'.op = "registerServiceProvider" /\ resp'.email = body.email
           /\ ~HasEmail(providers, body.email)
           /\ AuthController_registerServiceProvider(body, mailOk))
          => /\ resp'.status = 201
             /\ resp'.mail = WelcomeMail(body.email, mailOk)
             /\ findById(providers, resp'.userId) = {}
             /\ \E d \in findById(providers', resp'.userId) : d.email = body.email]_vars

\* Reached: the transport threw on the welcome message of a registration
\* that was answered 201, and the account is stored.
C15_Witness ==
  /\ resp.op = "registerUser" /\ resp.status = 201
  /\ resp.mail.kind = "welcome" /\ ~resp.mail.delivered
  /\ \E d \in findById(users, resp.userId) : d.email = resp.mail.to

\* C16: a failure of the reset notification is surfaced to the caller. When
\* ForgotPassword found the account (so a reset message was handed to the
\* transport) and the transport threw, the request is not answered 200: it
\* is answered 500.
C16_ResetMailFailureSurfaced ==
  (/\ resp.op = "forgotPassword"
   /\ resp.mail.kind = "reset" /\ ~resp.mail.delivered)
  => resp.status = 500 /\ resp.message = "Error sending forgot password email"

\* Reached: ForgotPassword for a registered email was answered 500 because
\* the transport threw; the token of the undelivered message is stored on
\* the account.
C16_Witness ==
  /\ resp.op = "forgotPassword" /\ resp.status = 500
  /\ resp.mail.kind = "reset" /\ ~resp.mail.delivered
  /\ \E d \in Accounts : d.email = resp.email /\ d.resetPasswordToken = resp.mail.resetToken

\* C17: ForgotPassword for an email that matches no account in either
\* collection fails with 404; no token is generated, no notification is
\* handed to the transport, and every account (so every account's reset
\* token and expiry) is as it was.
C17_ForgotUnknownEmail ==
  [][\A email \in Emails, mailOk \in BOOLEAN :
       (/\ resp'.op = "forgotPassword" /\ resp'.email = email
        /\ ~HasEmail(users, email) /\ ~HasEmail(providers, email)
        /\ AuthController_forgotPassword(email, mailOk))
       => /\ resp'.status = 404
          /\ Includes(resp'.message, "No account found")
          /\ nextToken' = nextToken
          /\ resp'.mail = NoMail
          /\ users' = users /\ providers' = providers]_vars

\* Reached: ForgotPassword for an email nobody registered was answered 404
\* while another account holds the reset token issued to it before.
C17_Witness ==
  /\ resp.op = "forgotPassword" /\ resp.status = 404
  /\ ~HasEmail(users, resp.email) /\ ~HasEmail(providers, resp.email)
  /\ nextToken > 1
  /\ \E d \in Accounts : d.resetPasswordToken = nextToken - 1

\* C18: a successful ForgotPassword stores on the resolved account a fresh
\* token (one no account holds, no request has used and no client has seen)
\* together with an expiry of the issuance time plus exactly one hour; no
\* other field of that account changes and no other account changes.
WithReset(d, token, expires) ==
  [d EXCEPT !.resetPasswordToken = token, !.resetPasswordExpires = expires]

IssuedTokens == 1 .. (nextToken - 1)

TokenOf(userType, id) ==
  {d.resetPasswordToken : d \in findById(Collection(userType), id)}

C19_LastForgotWins ==
  [][\A r \in Slots :
       /\ (\E mailOk \in BOOLEAN : ForgotSave(r, mailOk))
          => \E d \in findById(Collection(reqs[r].userType)', reqs[r].docId) :
               /\ d.resetPasswordToken = nextToken
               /\ d.resetPasswordExpires = now + ResetWindow
       /\ \A token \in IssuedTokens, userType \in UserTypes :
            (/\ \A d \in Accounts : d.resetPasswordToken # token
             /\ \E newPassword \in Passwords : ResetFind(r, token, newPassword, userType))
            => reqs'[r].pc = "done" /\ reqs'[r].status = 400
       /\ ResetSave(r)
          => \A stored \in TokenOf(reqs[r].userType, reqs[r].docId) :
               ~(stored \in IssuedTokens /\ stored > reqs[r].token)]_vars

\* C20: when one email is held by a regular account and by a provider
\* account, Login and ForgotPassword both resolve to the regular account.
\* Login succeeds exactly if the password verifies against the regular
\* account's stored hash, reports kind 'user' and returns that account with
\* a token for its id; with any other password (the provider's included) it
\* is answered 401. ForgotPassword stores the token on the regular account,
\* its message carries kind 'user', and the provider collection is untouched.
InBoth(email) == HasEmail(users, email) /\ HasEmail(providers, email)

C20_RegularAccountShadowsProvider ==
  [][\A email \in Emails :
       /\ \A password \in Passwords :
            (/\ resp'.op = "login" /\ resp'.email = email
             /\ InBoth(email)
             /\ AuthController_login(email, password))
            => \E u \in findOneByEmail(users, email) :
                 IF comparePassword(u, password)
                 THEN /\ resp'.status = 200
                      /\ resp'.userType = "user"
                      /\ resp'.body = {toJSON(u)}
                      /\ resp'.token = generateToken(u.id, now)
                 ELSE resp'.status = 401
       /\ \A mailOk \in BOOLEAN :
            (/\ resp'.op = "forgotPassword" /\ resp'.email = email
             /\ InBoth(email)
             /\ AuthController_forgotPassword(email, mailOk))
            => /\ providers' = providers
               /\ resp'.mail.kind = "reset" /\ resp'.mail.userType = "user"
               /\ \E u \in findOneByEmail(users', email) :
                    /\ u.resetPasswordToken = resp'.mail.resetToken
                    /\ u.resetPasswordToken = nextToken]_vars

\* Reached: one email is held by an account of each kind, with different
\* passwords; ForgotPassword for it put its token on the regular account
\* and named kind 'user', and the provider account holds no token.
C20_Witness ==
  /\ resp.op = "forgotPassword" /\ InBoth(resp.email)
  /\ resp.mail.userType = "user"
  /\ \E u \in findOneByEmail(users, resp.email), p \in findOneByEmail(providers, resp.email) :
       /\ u.resetPasswordToken = resp.mail.resetToken
       /\ p.resetPasswordToken = Null
       /\ u.password # p.password

\* C21: ResetPassword searches only the collection named by the kind
\* parameter. A token stored, unexpired, on an account of one kind and
\* presented with the other kind (whose collection holds no unexpired
\* account with it) is rejected with 400 'Invalid or expired reset token',
\* and no account of either kind is modified.
ValidOn(coll, token) ==
  \E d \in coll : /\ d.resetPasswordToken = token
                  /\ d.resetPasswordExpires # Null
                  /\ d.resetPasswordExpires > now

OtherKind(userType) == IF userType = "serviceProvider" THEN "user" ELSE "serviceProvider"

C21_ResetSearchesNamedKind ==
  [][\A token \in KnownTokens, userType \in UserTypes, newPassword \in Passwords :
       (/\ resp'.op = "resetPassword" /\ resp'.resetToken = token
        /\ ValidOn(Collection(OtherKind(userType)), token)
        /\ ~ValidOn(Collection(userType), token)
        /\ AuthController_resetPassword(token, newPassword, userType))
       => /\ resp'.status = 400
          /\ resp'.message = InvalidResetMsg
          /\ users' = users /\ providers' = providers]_vars

\* Reached: a reset was just answered 400 although a regular account holds
\* the presented token, issued by ForgotPassword and unexpired (so it was
\* presented with kind 'serviceProvider'), while a provider account exists.
C21_Witness ==
  /\ resp.op = "resetPassword" /\ resp.status = 400
  /\ resp.resetToken \in 1 .. (nextToken - 1)
  /\ ValidOn(users, resp.resetToken)
  /\ providers # {}

\* C22: every workflow outcome maps to exactly one status. DuplicateAccount
\* is answered 400, InvalidCredentials 401, ForgotPassword's NotFound 404,
\* InvalidOrExpiredToken 400, a profile or id lookup miss 404, and every
\* other failure (data store or notification) 500 with the handler's fixed
\* generic message, which carries no text of the underlying error.
GenericMessage(op) ==
  CASE op = "registerUser" -> "Error registering user"
    [] op = "registerServiceProvider" -> "Error registering service provider"
    [] op = "login" -> "Error during login"
    [] op = "forgotPassword" -> "Error sending forgot password email"
    [] op = "resetPassword" -> "Error resetting password"
    [] op = "getUserProfile" -> "Error fetching user profile"
    [] op = "updateUserProfile" -> "Error updating user profile"
    [] op = "deleteUser" -> "Error deleting user"
    [] op = "getUserById" -> "Error fetching user"
    [] op = "getAllUsers" -> "Error fetching users"
    [] op = "getServiceProviderProfile" -> "Error fetching service provider profile"
    [] op = "updateServiceProviderProfile" -> "Error updating service provider profile"
    [] op = "deleteServiceProvider" -> "Error deleting service provider"
    [] op = "getServiceProviderById" -> "Error fetching service provider"
    [] op = "getAllServiceProviders" -> "Error fetching service providers"
    [] op = "getServiceProvidersByExpertise" -> "Error fetching service providers by expertise"
    [] OTHER -> "Server error."

WorkflowErrors ==
  {UserExistsMsg, ProviderExistsMsg, InvalidLoginMsg, NoAccountMsg, InvalidResetMsg,
   UserNotFoundMsg, ProviderNotFoundMsg}

StatusOfError(message) ==
  CASE message \in {UserExistsMsg, ProviderExistsMsg} -> 400
    [] message = InvalidLoginMsg -> 401
    [] message = NoAccountMsg -> 404
    [] message = InvalidResetMsg -> 400
    [] message \in {UserNotFoundMsg, ProviderNotFoundMsg} -> 404
    [] OTHER -> 500

Protected(d) ==
  <<d.id, d.email, d.password, d.resetPasswordToken, d.resetPasswordExpires>>

C23_UpdateKeepsProtectedFields ==
  [][\A bearer \in Bearers, body \in UpdateBodies :
       (\/ /\ resp'.op = "updateUserProfile"
           /\ UserController_updateUserProfile(bearer, body)
        \/ /\ resp'.op = "updateServiceProviderProfile"
           /\ ServiceProviderController_updateServiceProviderProfile(bearer, body))
       => /\ {Protected(d) : d \in users'} = {Protected(d) : d \in users}
          /\ {Protected(d) : d \in providers'} = {Protected(d) : d \in providers}]_vars

\* C24: an account's stored reset token is disclosed only through the reset
\* notification. No response of the by-id reads, the listings or the public
\* listing by expertise contains the reset token ForgotPassword stored on an
\* account other than the requester's, so a caller who never received the
\* reset mail cannot present it to ResetPassword.
DisclosedTo(requesterId, body) ==
  {o \in body : o.resetPasswordToken \in IssuedTokens /\ o.id # requesterId}

C24_ResetTokenNotDisclosed ==
  [][/\ \A bearer \in SessionBearers :
          (\/ /\ resp'.op = "getUserById"
              /\ \E id \in Ids : UserController_getUserById(bearer, id)
           \/ /\ resp'.op = "getAllUsers" /\ UserController_getAllUsers(bearer)
           \/ /\ resp'.op = "getServiceProviderById"
              /\ \E id \in Ids : ServiceProviderController_getServiceProviderById(bearer, id)
           \/ /\ resp'.op = "getAllServiceProviders"
              /\ ServiceProviderController_getAllServiceProviders(bearer))
          => DisclosedTo(bearer.userId, resp'.body) = {}
     /\ (/\ resp'.op = "getServiceProvidersByExpertise"
         /\ GetServiceProvidersByExpertise)
        => DisclosedTo(0, resp'.body) = {}]_vars

\* C25: ForgotPassword persists the new token and expiry before it attempts
\* the notification and does not roll back. When the transport throws and
\* the caller is answered 500, the account holds the newly generated token
\* with the expiry one hour ahead (a previous token is overwritten), and
\* ResetPassword accepts that token at every instant before the expiry and
\* at none from the expiry on.
KindOf(d) == IF d \in providers THEN "serviceProvider" ELSE "user"

AcceptedUntilExpiry(U, P, token, userType, expires) ==
  \A t \in 0 .. (MaxTime + ResetWindow), newPassword \in Passwords :
    resetPassword(U, P, token, newPassword, userType, t).error
      = IF t < expires THEN NoError ELSE InvalidResetMsg

C25_TokenKeptWhenMailFails ==
  [][\A email \in Emails :
       (/\ resp'.op = "forgotPassword" /\ resp'.email = email
        /\ HasEmail(Accounts, email)
        /\ AuthController_forgotPassword(email, FALSE))
       => /\ resp'.status = 500
          /\ \E d \in Accounts :
               /\ d.email = email
               /\ WithReset(d, nextToken, now + ResetWindow) \in Accounts'
               /\ d.resetPasswordToken # nextToken
               /\ AcceptedUntilExpiry(users', providers', nextToken, KindOf(d),
                                      now + ResetWindow)]_vars

\* Reached: a second ForgotPassword for an account was answered 500 because
\* the transport threw; the account holds the token of the undelivered
\* message instead of the earlier one, and ResetPassword would accept it now.
C25_Witness ==
  /\ resp.op = "forgotPassword" /\ resp.status = 500
  /\ resp.mail.resetToken > 1
  /\ \E d \in Accounts :
       /\ d.email = resp.email
       /\ d.resetPasswordToken = resp.mail.resetToken
       /\ resetPassword(users, providers, d.resetPasswordToken, "secret2", KindOf(d),
                        now).error = NoError

\* C26: after an account is deleted, every bearer token issued for it is
\* answered 401 on every route behind the auth middleware (handler not run,
\* store unchanged), Login with an email no remaining account holds is
\* answered 401 'Invalid email or password', and no later request brings a
\* document with the deleted id back.
Deleted == {id \in 1 .. (nextId - 1) : findById(Accounts, id) = {}}

AuthenticatedRoute(bearer) ==
  \/ resp'.op = "getUserProfile" /\ UserController_getUserProfile(bearer)
  \/ /\ resp'.op = "updateUserProfile"
     /\ \E body \in UpdateBodies : UserController_updateUserProfile(bearer, body)
  \/ resp'.op = "deleteUser" /\ UserController_deleteUser(bearer)
  \/ resp'.op = "getUserById" /\ \E id \in Ids : UserController_getUserById(bearer, id)
  \/ resp'.op = "getAllUsers" /\ UserController_getAllUsers(bearer)
  \/ /\ resp'.op = "getServiceProviderProfile"
     /\ ServiceProviderController_getServiceProviderProfile(bearer)
  \/ /\ resp'.op = "updateServiceProviderProfile"
     /\ \E body \in UpdateBodies :
          ServiceProviderController_updateServiceProviderProfile(bearer, body)
  \/ /\ resp'.op = "deleteServiceProvider"
     /\ ServiceProviderController_deleteServiceProvider(bearer)
  \/ /\ resp'.op = "getServiceProviderById"
     /\ \E id \in Ids : ServiceProviderController_getServiceProviderById(bearer, id)
  \/ /\ resp'.op = "getAllServiceProviders"
     /\ ServiceProviderController_getAllServiceProviders(bearer)

C26_DeletedAccountStaysOut ==
  [][/\ \A id \in Deleted : findById(Accounts', id) = {}
     /\ \A bearer \in jwts :
          (bearer.userId \in Deleted /\ AuthenticatedRoute(bearer)) => Refused(401)
     /\ \A email \in Emails, password \in Passwords :
          (/\ resp'.op = "login" /\ resp'.email = email
           /\ Deleted # {} /\ ~HasEmail(Accounts, email)
           /\ AuthController_login(email, password))
          => /\ resp'.status = 401 /\ resp'.message = InvalidLoginMsg
             /\ jwts' = jwts]_vars

\* Reached: the account a login token was issued for has been deleted, and
\* a request with that token, still unexpired, was just answered 401.
C26_Witness ==
  /\ resp.status = 401 /\ resp.message = "Invalid token. User not found."
  /\ \E bearer \in jwts : bearer.userId \in Deleted /\ now < bearer.exp

\* C27: bearer tokens are not revoked by a password change. A successful
\* ResetPassword changes the auth middleware's verdict on no token issued
\* before it, and a token Login issued is admitted, with the id it was
\* issued for, as long as its account exists and its own expiry has not
\* come.
Verdicts(U, P, t) == [bearer \in jwts |-> auth(U, P, bearer, t)]

C27_TokensSurviveReset ==
  [][/\ (resp'.op = "resetPassword" /\ resp'.status = 200 /\ served' = served + 1)
        => Verdicts(users', providers', now') = Verdicts(users, providers, now)
     /\ \A bearer \in jwts' :
          (findById(Accounts', bearer.userId) # {} /\ now' < bearer.exp)
          => /\ auth(users', providers', bearer, now').status = 0
             /\ auth(users', providers', bearer, now').userId = bearer.userId]_vars

\* Reached: a regular account that registered with one password and logged
\* in with it has since reset its password to another; the token from that
\* login is unexpired and the middleware admits it.
C27_Witness ==
  /\ resp.op = "resetPassword" /\ resp.status = 200
  /\ \E bearer \in jwts, d \in users :
       /\ d.id = bearer.userId
       /\ d.password = bcrypt_hash(Verbatim("secret2"))
       /\ now < bearer.exp
       /\ auth(users, providers, bearer, now).status = 0

\* C28: the kind the auth middleware attaches to a request always equals the
\* kind Login reported when it issued the token, for as long as the account
\* exists. At the login that issues a token the middleware resolves it to
\* the reported kind, and so does not let it pass the other kind's check;
\* and no later step changes the kind the middleware resolves an admitted
\* token to.
C28_AuthKindIsLoginKind ==
  [][/\ (resp'.op = "login" /\ resp'.status = 200 /\ served' = served + 1)
        => LET a == auth(users', providers', resp'.token, now')
           IN /\ a.status = 0
              /\ a.userType = resp'.userType
              /\ a.userId = resp'.token.userId
              /\ ~Passes(a, OtherKind(resp'.userType))
     /\ \A bearer \in jwts :
          LET before == auth(users, providers, bearer, now)
              after  == auth(users', providers', bearer, now')
          IN (before.status = 0 /\ after.status = 0)
             => after.userType = before.userType]_vars

\* Reached: the email is held by an account of each kind; a provider logged
\* in before the regular account existed, and a later login with the same
\* email was answered as 'user'. The middleware resolves the provider's
\* token to 'serviceProvider' and the new one to 'user'.
C28_Witness ==
  /\ resp.op = "login" /\ resp.status = 200 /\ resp.userType = "user"
  /\ InBoth(resp.email)
  /\ auth(users, providers, resp.token, now).userType = "user"
  /\ \E bearer \in jwts : auth(users, providers, bearer, now).userType = "serviceProvider"

\* C29: DELETE on the own-profile route removes exactly the authenticated
\* account from its own kind's collection and leaves every other account of
\* that kind and every account of the other kind (one with the same email
\* included) unchanged; it is answered 200 exactly when the bearer token is
\* valid for an account of the route's kind, and any other answer leaves
\* both collections as they were. The service answers an id that is gone
\* with its 'not found' error. The last argument is the status a DELETE
\* with the token of an already deleted account is answered with.
OwnDelete(bearer, kind) ==
  IF kind = "user"
  THEN resp'.op = "deleteUser" /\ UserController_deleteUser(bearer)
  ELSE /\ resp'.op = "deleteServiceProvider"
       /\ ServiceProviderController_deleteServiceProvider(bearer)

DeleteRemovesOnlyCaller(gone) ==
  \A bearer \in SessionBearers, kind \in UserTypes :
    LET mine     == IF kind = "user" THEN users ELSE providers
        mineNext == IF kind = "user" THEN users' ELSE providers'
        rest     == IF kind = "user" THEN providers ELSE users
        restNext == IF kind = "user" THEN providers' ELSE users'
    IN OwnDelete(bearer, kind) =>
         /\ restNext = rest
         /\ resp'.status = 200 <=> ValidTokenOf(bearer, mine)
         /\ resp'.status = 200 => mineNext = {d \in mine : d.id # bearer.userId}
         /\ resp'.status # 200 => mineNext = mine
         /\ bearer.userId \in Deleted => resp'.status = gone

\* C29 as amended: the second DELETE with the same bearer token is stopped by
\* the auth middleware with 401; the handler's 404 is what the services
\* answer for an id that is gone.
C29_DeleteRemovesOnlyCaller ==
  [][/\ DeleteRemovesOnlyCaller(401)
     /\ \A id \in Ids :
          /\ findById(users, id) = {}
             => deleteUser(users, id) = [error |-> UserNotFoundMsg, coll |-> users]
          /\ findById(providers, id) = {}
             => deleteServiceProvider(providers, id)
                  = [error |-> ProviderNotFoundMsg, coll |-> providers]]_vars

\* C29 as stated: the second DELETE for the same id is answered 404.
C29_SecondDeleteNotFound == [][DeleteRemovesOnlyCaller(404)]_vars

\* Reached: a regular account deleted itself while a provider account
\* existed; the provider is still stored, and a second DELETE /users/profile
\* with the same, unexpired token was just answered 401.
C29_Witness ==
  /\ resp.op = "deleteUser" /\ resp.status = 401
  /\ resp.message = "Invalid token. User not found."
  /\ providers # {}
  /\ \E bearer \in jwts : bearer.userId \in Deleted /\ now < bearer.exp

\* C30: Login, the profile reads, the by-id reads, the list endpoints and
\* the expertise query are read-only: whatever they answer, every account
\* of both collections is after the request exactly what it was before it,
\* the reset-token fields included.
ReadRequest ==
  \/ /\ resp'.op = "login"
     /\ \E email \in Emails, password \in Passwords : AuthController_login(email, password)
  \/ \E bearer \in SessionBearers :
       \/ resp'.op = "getUserProfile" /\ UserController_getUserProfile(bearer)
       \/ /\ resp'.op = "getUserById"
          /\ \E id \in Ids : UserController_getUserById(bearer, id)
       \/ resp'.op = "getAllUsers" /\ UserController_getAllUsers(bearer)
       \/ /\ resp'.op = "getServiceProviderProfile"
          /\ ServiceProviderController_getServiceProviderProfile(bearer)
       \/ /\ resp'.op = "getServiceProviderById"
          /\ \E id \in Ids : ServiceProviderController_getServiceProviderById(bearer, id)
       \/ /\ resp'.op = "getAllServiceProviders"
          /\ ServiceProviderController_getAllServiceProviders(bearer)
  \/ resp'.op = "getServiceProvidersByExpertise" /\ GetServiceProvidersByExpertise

====
